---- MODULE Spec2Model ----
(***************************************************************************)
(* Model of lgtm.py: the LGTMSite session client (retrying request         *)
(* executor, GET/POST helpers, bulk rebuild and unfollow) and the          *)
(* LGTMDataFilters normaliser (org_to_ids, extract_project_under_org).     *)
(*                                                                         *)
(* Python strings that the code splits or searches are modelled as         *)
(* sequences of tokens, "/" being a token of its own, so that str.split    *)
(* and the substring test are computed rather than assumed.                *)
(***************************************************************************)
EXTENDS Integers, Sequences, FiniteSets, TLC

\* ------------------------------------------------------------------------
\* Bounds of the model
\* ------------------------------------------------------------------------
\* longest project list handed directly to org_to_ids
MaxLen == 3
\* longest project list the remote service returns to a bulk operation
MaxListing == 2

\* ------------------------------------------------------------------------
\* String helpers (Python str.split and the `in` substring test)
\* ------------------------------------------------------------------------
RECURSIVE SplitFrom(_, _, _, _)
SplitFrom(s, sep, i, cur) ==
    IF i > Len(s) THEN <<cur>>
    ELSE IF s[i] = sep THEN <<cur>> \o SplitFrom(s, sep, i + 1, <<>>)
    ELSE SplitFrom(s, sep, i + 1, Append(cur, s[i]))

\* s.split(sep): always at least one segment, empty segments are kept
Split(s, sep) == SplitFrom(s, sep, 1, <<>>)

\* needle in hay
Contains(needle, hay) ==
    \E i \in 0..(Len(hay) - Len(needle)) :
        \A j \in 1..Len(needle) : hay[i + j] = needle[j]

\* the literal 'https://github.com/'
GithubPrefix == <<"https:", "/", "/", "github.com", "/">>

\* ------------------------------------------------------------------------
\* SimpleProject
\* ------------------------------------------------------------------------
SimpleProject(display_name, key, is_protoproject) ==
    [display_name |-> display_name, key |-> key, is_protoproject |-> is_protoproject]

make_post_data(simple_project) ==
    IF simple_project.is_protoproject
    THEN [field |-> "protoproject_key", value |-> simple_project.key]
    ELSE [field |-> "project_key", value |-> simple_project.key]

\* ------------------------------------------------------------------------
\* LGTMDataFilters.org_to_ids
\*
\* A raw project is a JSON object, modelled as a function from its keys.
\* The returned dict (insertion ordered) is a sequence of entries
\* [org, ids], one per key, in insertion order.
\* ------------------------------------------------------------------------
\* 'https://github.com/' in the_project['cloneUrl']
IsGithubClone_startswith(cloneUrl) ==
    /\ Len(cloneUrl) >= Len(GithubPrefix)
    /\ SubSeq(cloneUrl, 1, Len(GithubPrefix)) = GithubPrefix

IsGithubClone(cloneUrl) == Contains(GithubPrefix, cloneUrl)

\* the_project['repoProvider'] != 'github_apps' is the skip test
IsGithubProvider(repoProvider) == repoProvider = "github_apps"

\* org in org_to_ids
HasOrg(org_to_ids_, org) == \E i \in 1..Len(org_to_ids_) : org_to_ids_[i].org = org

\* The tail of the loop body: look the list up (creating it on first
\* encounter) and append the SimpleProject to it.
AddProject_prepend(org_to_ids_, org, sp) ==
    IF HasOrg(org_to_ids_, org)
    THEN [i \in 1..Len(org_to_ids_) |->
            IF org_to_ids_[i].org = org
            THEN [org |-> org, ids |-> <<sp>> \o org_to_ids_[i].ids]
            ELSE org_to_ids_[i]]
    ELSE Append(org_to_ids_, [org |-> org, ids |-> <<sp>>])

AddProject(org_to_ids_, org, sp) ==
    IF HasOrg(org_to_ids_, org)
    THEN [i \in 1..Len(org_to_ids_) |->
            IF org_to_ids_[i].org = org
            THEN [org |-> org, ids |-> Append(org_to_ids_[i].ids, sp)]
            ELSE org_to_ids_[i]]
    ELSE Append(org_to_ids_, [org |-> org, ids |-> <<sp>>])

\* The head of the loop body for one raw project: which branch is taken
\* and what it extracts.  act is "append", "continue" or "raise".
Continue == [act |-> "continue"]
Raise(exc) == [act |-> "raise", exc |-> exc]

Extract_skipunknown(project) ==
    IF "protoproject" \in DOMAIN project THEN
        LET the_project == project["protoproject"] IN
        IF ~IsGithubClone(the_project.cloneUrl) THEN Continue
        ELSE [act |-> "append",
              org |-> Split(the_project.displayName, "/")[1],
              sp  |-> SimpleProject(the_project.displayName, the_project.key, TRUE)]
    ELSE IF "realProject" \in DOMAIN project THEN
        IF Len(project["realProject"]) = 0 THEN Raise("IndexError")
        ELSE
        LET the_project == project["realProject"][1] IN
        IF ~IsGithubProvider(the_project.repoProvider) THEN Continue
        ELSE IF Len(Split(the_project.slug, "/")) < 2 THEN Raise("IndexError")
        ELSE [act |-> "append",
              org |-> Split(the_project.slug, "/")[2],
              sp  |-> SimpleProject(the_project.displayName, the_project.key, FALSE)]
    ELSE Continue

Extract(project) ==
    IF "protoproject" \in DOMAIN project THEN
        LET the_project == project["protoproject"] IN
        IF ~IsGithubClone(the_project.cloneUrl) THEN Continue
        ELSE [act |-> "append",
              org |-> Split(the_project.displayName, "/")[1],
              sp  |-> SimpleProject(the_project.displayName, the_project.key, TRUE)]
    ELSE IF "realProject" \in DOMAIN project THEN
        IF Len(project["realProject"]) = 0 THEN Raise("IndexError")
        ELSE
        LET the_project == project["realProject"][1] IN
        IF ~IsGithubProvider(the_project.repoProvider) THEN Continue
        ELSE IF Len(Split(the_project.slug, "/")) < 2 THEN Raise("IndexError")
        ELSE [act |-> "append",
              org |-> Split(the_project.slug, "/")[2],
              sp  |-> SimpleProject(the_project.displayName, the_project.key, FALSE)]
    ELSE Raise("KeyError")

\* Outcome of a call: either a returned value or a raised exception.
Returned(v) == [raised |-> "none", value |-> v]
Raised(exc) == [raised |-> exc, value |-> <<>>]

RECURSIVE org_to_ids_loop(_, _, _)
org_to_ids_loop(projects, i, org_to_ids_) ==
    IF i > Len(projects) THEN Returned(org_to_ids_)
    ELSE LET e == Extract(projects[i]) IN
         CASE e.act = "raise"    -> Raised(e.exc)
           [] e.act = "continue" -> org_to_ids_loop(projects, i + 1, org_to_ids_)
           [] e.act = "append"   ->
                org_to_ids_loop(projects, i + 1, AddProject(org_to_ids_, e.org, e.sp))

org_to_ids(projects) == org_to_ids_loop(projects, 1, <<>>)

\* ------------------------------------------------------------------------
\* LGTMDataFilters.extract_project_under_org
\* ------------------------------------------------------------------------
extract_project_under_org_strict(org, projects_sorted) ==
    IF ~HasOrg(projects_sorted, org) THEN Raised("KeyError")
    ELSE Returned((CHOOSE e \in {projects_sorted[i] : i \in 1..Len(projects_sorted)} :
                      e.org = org).ids)

extract_project_under_org(org, projects_sorted) ==
    IF ~HasOrg(projects_sorted, org) THEN Returned(<<>>)
    ELSE Returned((CHOOSE e \in {projects_sorted[i] : i \in 1..Len(projects_sorted)} :
                      e.org = org).ids)

\* ------------------------------------------------------------------------
\* Raw project records the remote service can hand back
\* ------------------------------------------------------------------------
Str(a, b) == <<a, "/", b>>
GithubUrl(a, b) == GithubPrefix \o Str(a, b)
BitbucketUrl(a, b) == <<"https:", "/", "/", "bitbucket.org", "/">> \o Str(a, b)
\* a mirror URL that mentions the GitHub URL after a scheme prefix
MirrorUrl(a, b) == <<"git+">> \o GithubPrefix \o Str(a, b)

Proto(cloneUrl, displayName, key) ==
    [protoproject |-> [cloneUrl |-> cloneUrl, displayName |-> displayName, key |-> key]]
Real(slug, displayName, key, repoProvider) ==
    [realProject |-> << [slug |-> slug, displayName |-> displayName,
                         key |-> key, repoProvider |-> repoProvider] >>]

WellFormedRecords ==
    { Proto(GithubUrl("orgA", "x"), Str("orgA", "x"), "p1"),
      Proto(MirrorUrl("orgB", "m"), Str("orgB", "m"), "p2"),
      Proto(BitbucketUrl("orgA", "z"), Str("orgA", "z"), "p3"),
      Real(<<"g", "/", "orgB", "/", "y">>, Str("orgB", "y"), "r1", "github_apps"),
      Real(<<"g", "/", "orgA", "/", "w">>, Str("orgA", "w"), "r2", "github_apps"),
      Real(<<"b", "/", "orgB", "/", "q">>, Str("orgB", "q"), "r3", "bitbucket") }

\* records the code cannot normalise
UnknownShape == [somethingElse |-> "v"]
NoOrgSlug == Real(<<"solo">>, <<"solo">>, "r4", "github_apps")
EmptyRealList == [realProject |-> <<>>]

RawRecords == WellFormedRecords \cup {UnknownShape, NoOrgSlug, EmptyRealList}

\* the records the remote service lists in answer to getMyProjects
ListedRecords ==
    { Proto(GithubUrl("orgA", "x"), Str("orgA", "x"), "p1"),
      Proto(MirrorUrl("orgB", "m"), Str("orgB", "m"), "p2"),
      Proto(BitbucketUrl("orgA", "z"), Str("orgA", "z"), "p3"),
      Real(<<"g", "/", "orgA", "/", "w">>, Str("orgA", "w"), "r2", "github_apps"),
      UnknownShape }

RECURSIVE SeqsUpTo(_, _)
SeqsUpTo(S, n) ==
    IF n = 0 THEN {<<>>}
    ELSE LET shorter == SeqsUpTo(S, n - 1) IN
         shorter \cup {Append(q, x) : q \in {r \in shorter : Len(r) = n - 1}, x \in S}


\* ------------------------------------------------------------------------
\* HTTP layer: what one invocation of a request thunk can do, and what the
\* remote service can answer
\* ------------------------------------------------------------------------
\* exceptions of the transport other than requests.exceptions.SSLError
OtherExceptions == {"ConnectionError", "Timeout"}

ThunkRaises(exc) == [kind |-> "raise", exc |-> exc, body |-> <<>>]
ThunkResponds(body) == [kind |-> "return", exc |-> "none", body |-> body]

\* response bodies: text that is not JSON, or a JSON object with a status
NonJson == [json |-> FALSE, status |-> "none", has_data |-> FALSE, data |-> <<>>]
Json(status, has_data, data) ==
    [json |-> TRUE, status |-> status, has_data |-> has_data, data |-> data]

PostBodies ==
    { NonJson, Json("error", FALSE, <<>>),
      Json("success", FALSE, <<>>), Json("success", TRUE, <<"payload">>) }

GetBodies ==
    { NonJson, Json("error", FALSE, <<>>) }
    \cup { Json("success", TRUE, l) : l \in SeqsUpTo(ListedRecords, MaxListing) }

Request(method, url, data) == [method |-> method, url |-> url, data |-> data]
NoData == [field |-> "none", value |-> "none"]
NoRequest == Request("none", "none", NoData)

BodiesFor(request) == IF request.method = "GET" THEN GetBodies ELSE PostBodies

\* ------------------------------------------------------------------------
\* LGTMSite._resilient_request: one level of the recursion, given what the
\* thunk did.  act is "return", "recurse" or "raise".
\* ------------------------------------------------------------------------
MaxRetries == 4

IsSSLError_any(exc) == TRUE

\* except SSLError as e
IsSSLError(exc) == exc = "SSLError"

MayRetry_five(retry_count) == retry_count < MaxRetries + 1

MayRetry_three(retry_count) == retry_count < MaxRetries - 1

\* if retry_count < 4
MayRetry(retry_count) == retry_count < MaxRetries

_resilient_request(thunk, retry_count) ==
    IF thunk.kind = "return" THEN [act |-> "return", out |-> Returned(thunk.body)]
    ELSE IF IsSSLError(thunk.exc)
         THEN IF MayRetry(retry_count)
              THEN [act |-> "recurse", out |-> Returned(<<>>)]
              ELSE [act |-> "raise", out |-> Raised("LGTMRequestException")]
         ELSE [act |-> "raise", out |-> Raised(thunk.exc)]

\* ------------------------------------------------------------------------
\* LGTMSite._make_lgtm_get / get_my_projects / _make_lgtm_post, given the
\* outcome r of _resilient_request (a response body or an exception)
\* ------------------------------------------------------------------------
\* r.json() outside any try block
_make_lgtm_get(r) ==
    IF r.raised # "none" THEN r
    ELSE IF ~r.value.json THEN Raised("ValueError")
    ELSE Returned(r.value)

get_my_projects(r) ==
    LET data == _make_lgtm_get(r) IN
    IF data.raised # "none" THEN data
    ELSE IF data.value.status = "success" THEN Returned(data.value.data)
    ELSE Raised("LGTMRequestException")

EmptyDict == <<>>

_make_lgtm_post(r) ==
    IF r.raised # "none" THEN r
    ELSE IF ~r.value.json THEN Raised("LGTMRequestException")
    ELSE IF r.value.status = "success"
         THEN IF r.value.has_data THEN Returned(r.value.data) ELSE Returned(EmptyDict)
         ELSE Raised("LGTMRequestException")

\* get_my_projects_under_org, after the listing request
get_my_projects_under_org(org, r) ==
    LET listing == get_my_projects(r) IN
    IF listing.raised # "none" THEN listing
    ELSE LET projects_sorted == org_to_ids(listing.value) IN
         IF projects_sorted.raised # "none" THEN projects_sorted
         ELSE extract_project_under_org(org, projects_sorted.value)

\* ------------------------------------------------------------------------
\* Requests built by the session client
\* ------------------------------------------------------------------------
GetMyProjectsRequest == Request("GET", "getMyProjects", NoData)

RebuildRequest(simple_project) ==
    Request("POST", "rebuildProtoproject", make_post_data(simple_project))

UnfollowRequest(simple_project) ==
    Request("POST",
            IF ~simple_project.is_protoproject THEN "unfollowProject"
                                               ELSE "unfollowProtoproject",
            make_post_data(simple_project))

\* ------------------------------------------------------------------------
\* Loops of the bulk operations
\* ------------------------------------------------------------------------
\* for org in org_to_projects: for project in org_to_projects[org]
RECURSIVE Flatten(_)
Flatten(org_to_projects) ==
    IF org_to_projects = <<>> THEN <<>>
    ELSE Head(org_to_projects).ids \o Flatten(Tail(org_to_projects))

\* if not project.is_protoproject: continue
RebuildSkips(project) == ~project.is_protoproject

UnfollowSkips_never(project, include_protoproject) == FALSE

\* if not include_protoproject and project.is_protoproject: continue
UnfollowSkips(project, include_protoproject) ==
    ~include_protoproject /\ project.is_protoproject

RebuildCatches_nothing(exc) == FALSE

\* except LGTMRequestException in force_rebuild_project
RebuildCatches(exc) == exc = "LGTMRequestException"

\* first index from `from` on that the loop does not skip, 0 if none
NextRebuildIndex(projects, from) ==
    LET todo == {j \in from..Len(projects) : ~RebuildSkips(projects[j])} IN
    IF todo = {} THEN 0 ELSE CHOOSE j \in todo : \A k \in todo : j <= k

NextUnfollowIndex(projects, from, include_protoproject) ==
    LET todo == {j \in from..Len(projects) :
                    ~UnfollowSkips(projects[j], include_protoproject)} IN
    IF todo = {} THEN 0 ELSE CHOOSE j \in todo : \A k \in todo : j <= k

\* time.sleep(1)
Sleep == [ev |-> "sleep", request |-> NoRequest,
          out |-> [kind |-> "slept", exc |-> "none", body |-> <<>>]]
Sent(request, out) == [ev |-> "send", request |-> request, out |-> out]


\* ------------------------------------------------------------------------
\* State
\* ------------------------------------------------------------------------
VARIABLES
    pc,           \* "idle", "request" (a thunk is about to be invoked), "done"
    op,           \* the call in progress and its arguments
    stage,        \* "get" or "loop" inside a bulk operation, else "none"
    req,          \* the request the pending thunk performs
    retry_count,  \* argument of the current _resilient_request activation
    events,       \* every thunk invocation and every time.sleep, in order
    iter,         \* the projects a bulk operation loops over
    pos,          \* index in iter of the project being processed
    grouping,     \* the org -> projects dict the call holds
    result        \* what the call returned or raised

vars == <<pc, op, stage, req, retry_count, events, iter, pos, grouping, result>>

Orgs == {<<"orgA">>, <<"orgB">>, <<"orgC">>}

Op(name, org, include_protoproject, projects) ==
    [name |-> name, org |-> org,
     include_protoproject |-> include_protoproject, projects |-> projects]

\* the value of a call that returns nothing
None == <<"None">>

Init ==
    /\ pc = "idle"
    /\ op = Op("none", <<>>, FALSE, <<>>)
    /\ stage = "none"
    /\ req = NoRequest
    /\ retry_count = 0
    /\ events = <<>>
    /\ iter = <<>>
    /\ pos = 0
    /\ grouping = <<>>
    /\ result = Returned(<<>>)

\* ------------------------------------------------------------------------
\* Where a call goes once _resilient_request has returned or raised r
\* ------------------------------------------------------------------------
Finished(r, g) ==
    [pc |-> "done", stage |-> "none", req |-> NoRequest, iter |-> iter, pos |-> pos,
     grouping |-> g, result |-> r, pre |-> <<>>]

Pending(st, request, it, j, g, pre) ==
    [pc |-> "request", stage |-> st, req |-> request, iter |-> it, pos |-> j,
     grouping |-> g, result |-> result, pre |-> pre]

\* force_rebuild_all_proto_projects: the loop from index `from` on
RebuildFrom(projects, from, g) ==
    LET j == NextRebuildIndex(projects, from) IN
    IF j = 0 THEN [Finished(Returned(None), g) EXCEPT !.iter = projects]
    ELSE Pending("loop", RebuildRequest(projects[j]), projects, j, g, <<Sleep>>)

\* unfollow_repository_by_org: the loop from index `from` on
UnfollowFrom(projects, from, g) ==
    LET j == NextUnfollowIndex(projects, from, op.include_protoproject) IN
    IF j = 0 THEN [Finished(Returned(None), g) EXCEPT !.iter = projects]
    ELSE Pending("loop", UnfollowRequest(projects[j]), projects, j, g, <<>>)

force_rebuild_all_proto_projects(r) ==
    IF stage = "get" THEN
        LET listing == get_my_projects(r) IN
        IF listing.raised # "none" THEN Finished(listing, grouping)
        ELSE LET org_to_projects == org_to_ids(listing.value) IN
             IF org_to_projects.raised # "none" THEN Finished(org_to_projects, grouping)
             ELSE RebuildFrom(Flatten(org_to_projects.value), 1, org_to_projects.value)
    ELSE
        \* force_rebuild_project
        LET posted == _make_lgtm_post(r) IN
        IF posted.raised # "none" /\ ~RebuildCatches(posted.raised)
        THEN Finished(posted, grouping)
        ELSE RebuildFrom(iter, pos + 1, grouping)

unfollow_repository_by_org(r) ==
    IF stage = "get" THEN
        LET listing == get_my_projects(r) IN
        LET projects_sorted ==
                IF listing.raised # "none" THEN listing ELSE org_to_ids(listing.value) IN
        LET projects_under_org == get_my_projects_under_org(op.org, r) IN
        IF projects_under_org.raised # "none" THEN Finished(projects_under_org, grouping)
        ELSE UnfollowFrom(projects_under_org.value, 1, projects_sorted.value)
    ELSE
        \* unfollow_repository
        LET posted == _make_lgtm_post(r) IN
        IF posted.raised # "none" THEN Finished(posted, grouping)
        ELSE UnfollowFrom(iter, pos + 1, grouping)

Continuation(r) ==
    CASE op.name = "_resilient_request" -> Finished(r, grouping)
      [] op.name = "get_my_projects" -> Finished(get_my_projects(r), grouping)
      [] op.name = "get_project_lists" -> Finished(_make_lgtm_post(r), grouping)
      [] op.name = "force_rebuild_all_proto_projects" -> force_rebuild_all_proto_projects(r)
      [] op.name = "unfollow_repository_by_org" -> unfollow_repository_by_org(r)

\* ------------------------------------------------------------------------
\* Actions: calls
\* ------------------------------------------------------------------------
StartRequest(name, org, include_protoproject, request) ==
    /\ pc' = "request"
    /\ op' = Op(name, org, include_protoproject, <<>>)
    /\ stage' = "get"
    /\ req' = request
    /\ retry_count' = 0
    /\ UNCHANGED <<events, iter, pos, grouping, result>>

\* LGTMSite._resilient_request(request_method) with the default retry_count
Call_resilient_request ==
    /\ pc = "idle"
    /\ StartRequest("_resilient_request", <<>>, FALSE,
                 Request("POST", "thunk", NoData))

Call_get_my_projects ==
    /\ pc = "idle"
    /\ StartRequest("get_my_projects", <<>>, FALSE, GetMyProjectsRequest)

Call_get_project_lists ==
    /\ pc = "idle"
    /\ StartRequest("get_project_lists", <<>>, FALSE,
                 Request("POST", "getUsedProjectSelections", NoData))

Call_force_rebuild_all_proto_projects ==
    /\ pc = "idle"
    /\ StartRequest("force_rebuild_all_proto_projects", <<>>, FALSE, GetMyProjectsRequest)

Call_unfollow_repository_by_org ==
    \E org \in Orgs, include_protoproject \in BOOLEAN :
        /\ pc = "idle"
        /\ StartRequest("unfollow_repository_by_org", org, include_protoproject,
                        GetMyProjectsRequest)

Call_org_to_ids ==
    \E projects \in SeqsUpTo(RawRecords, MaxLen) :
        /\ pc = "idle"
        /\ pc' = "done"
        /\ op' = Op("org_to_ids", <<>>, FALSE, projects)
        /\ result' = org_to_ids(projects)
        /\ UNCHANGED <<stage, req, retry_count, events, iter, pos, grouping>>

Groupings ==
    {g.value : g \in {h \in {org_to_ids(l) : l \in SeqsUpTo(WellFormedRecords, MaxLen)} :
                         h.raised = "none"}}

Call_extract_project_under_org ==
    \E org \in Orgs, projects_sorted \in Groupings :
        /\ pc = "idle"
        /\ pc' = "done"
        /\ op' = Op("extract_project_under_org", org, FALSE, projects_sorted)
        /\ result' = extract_project_under_org(org, projects_sorted)
        /\ grouping' = projects_sorted
        /\ UNCHANGED <<stage, req, retry_count, events, iter, pos>>

\* ------------------------------------------------------------------------
\* Actions: one invocation of the pending request thunk
\* ------------------------------------------------------------------------
ThunkStep(thunk) ==
    /\ LET rr == _resilient_request(thunk, retry_count)
           sent == Append(events, Sent(req, thunk))
       IN IF rr.act = "recurse"
          THEN /\ retry_count' = retry_count + 1
               /\ events' = sent
               /\ UNCHANGED <<pc, op, stage, req, iter, pos, grouping, result>>
          ELSE LET c == Continuation(rr.out) IN
               /\ pc' = c.pc
               /\ stage' = c.stage
               /\ req' = c.req
               /\ iter' = c.iter
               /\ pos' = c.pos
               /\ grouping' = c.grouping
               /\ result' = c.result
               /\ events' = sent \o c.pre
               /\ retry_count' = 0
               /\ UNCHANGED op

ThunkRaisesSSLError ==
    /\ pc = "request"
    /\ ThunkStep(ThunkRaises("SSLError"))

ThunkRaisesOther ==
    /\ pc = "request"
    /\ \E exc \in OtherExceptions : ThunkStep(ThunkRaises(exc))

ThunkReturns ==
    /\ pc = "request"
    /\ \E body \in BodiesFor(req) : ThunkStep(ThunkResponds(body))

\* single requests: the executor on its own, one GET, one POST
NextRequests ==
    \/ Call_resilient_request
    \/ Call_get_my_projects
    \/ Call_get_project_lists
    \/ ThunkRaisesSSLError
    \/ ThunkRaisesOther
    \/ ThunkReturns

SpecRequests == Init /\ [][NextRequests]_vars

\* the normaliser, applied to lists of raw records and to groupings
NextFilters ==
    \/ Call_org_to_ids
    \/ Call_extract_project_under_org

SpecFilters == Init /\ [][NextFilters]_vars

\* rebuild-all against a remote service free to answer anything
NextRebuild ==
    \/ Call_force_rebuild_all_proto_projects
    \/ ThunkRaisesSSLError
    \/ ThunkRaisesOther
    \/ ThunkReturns

SpecRebuild == Init /\ [][NextRebuild]_vars

\* unfollow-by-organization against the same remote service
NextUnfollow ==
    \/ Call_unfollow_repository_by_org
    \/ ThunkRaisesSSLError
    \/ ThunkRaisesOther
    \/ ThunkReturns

SpecUnfollow == Init /\ [][NextUnfollow]_vars


\* ========================================================================
\* Properties
\* ========================================================================
IsSend(e) == e.ev = "send"
IsSleep(e) == e.ev = "sleep"
RaisedSSL(e) == IsSend(e) /\ e.out.kind = "raise" /\ e.out.exc = "SSLError"
RaisedOther(e) == IsSend(e) /\ e.out.kind = "raise" /\ e.out.exc \in OtherExceptions
Responded(e) == IsSend(e) /\ e.out.kind = "return"

AllSSL == \A i \in 1..Len(events) : RaisedSSL(events[i])

InResilientCall == op.name = "_resilient_request"

\* C1: a thunk that raises the SSL failure on every invocation is invoked
\* exactly 5 times by _resilient_request (retry_count = 0), never a 6th
\* time, and the call then raises LGTMRequestException instead of returning.
C1_RetryCap ==
    (InResilientCall /\ AllSSL) =>
        /\ Len(events) <= 5
        /\ pc = "done" <=> Len(events) = 5
        /\ pc = "done" => result.raised = "LGTMRequestException"

C1_Witness ==
    /\ InResilientCall /\ AllSSL /\ pc = "done"
    /\ Len(events) = 5 /\ result.raised = "LGTMRequestException"

\* C2: for k in 1..5, when the first k-1 invocations raise the SSL failure
\* the thunk is invoked a k-th time, and when that k-th invocation returns
\* a response the call returns exactly that response after exactly k
\* invocations, none following the successful one.
C2_ReturnsKthResponse ==
    InResilientCall =>
        /\ (AllSSL /\ Len(events) < 5) => pc = "request"
        /\ \A k \in 1..Len(events) :
              Responded(events[k]) =>
                  /\ k = Len(events)
                  /\ k \in 1..5
                  /\ \A i \in 1..(k - 1) : RaisedSSL(events[i])
                  /\ pc = "done"
                  /\ result.raised = "none"
                  /\ result.value = events[k].out.body

C2_Witness ==
    /\ InResilientCall /\ pc = "done" /\ Len(events) = 5
    /\ Responded(events[5]) /\ result.raised = "none"
    /\ result.value = events[5].out.body
    /\ \A i \in 1..4 : RaisedSSL(events[i])

\* C3: an exception of the thunk other than the SSL failure, on the first
\* attempt or on a retry, ends _resilient_request at once: that same
\* exception reaches the caller, the thunk is not invoked again and the
\* exception is not turned into LGTMRequestException.
C3_OtherExceptionPropagates ==
    InResilientCall =>
        \A k \in 1..Len(events) :
            RaisedOther(events[k]) =>
                /\ k = Len(events)
                /\ pc = "done"
                /\ result.raised = events[k].out.exc
                /\ result.raised # "LGTMRequestException"

C3_Witness ==
    /\ InResilientCall /\ pc = "done" /\ Len(events) = 3
    /\ RaisedSSL(events[1]) /\ RaisedSSL(events[2]) /\ RaisedOther(events[3])
    /\ result.raised = events[3].out.exc


\* ------------------------------------------------------------------------
\* Properties of the normaliser
\* ------------------------------------------------------------------------
HasNeitherKey(project) ==
    "protoproject" \notin DOMAIN project /\ "realProject" \notin DOMAIN project

\* a record of one of the two shapes the service documents: a protoproject
\* object, or a non-empty realProject list whose slug names an organization
WellShaped(project) ==
    \/ "protoproject" \in DOMAIN project
    \/ /\ "realProject" \in DOMAIN project
       /\ Len(project["realProject"]) >= 1
       /\ Len(Split(project["realProject"][1].slug, "/")) >= 2

\* hosted on GitHub, as the two shapes say it
GitHubHosted(project) ==
    IF "protoproject" \in DOMAIN project
    THEN Contains(GithubPrefix, project["protoproject"].cloneUrl)
    ELSE project["realProject"][1].repoProvider = "github_apps"

\* what a kept record is expected to contribute
ExpectedOrg(project) ==
    IF "protoproject" \in DOMAIN project
    THEN Split(project["protoproject"].displayName, "/")[1]
    ELSE Split(project["realProject"][1].slug, "/")[2]

ExpectedEntry(project) ==
    IF "protoproject" \in DOMAIN project
    THEN [display_name |-> project["protoproject"].displayName,
          key |-> project["protoproject"].key, is_protoproject |-> TRUE]
    ELSE [display_name |-> project["realProject"][1].displayName,
          key |-> project["realProject"][1].key, is_protoproject |-> FALSE]

InOrgToIds == op.name = "org_to_ids" /\ pc = "done"

AllWellShaped(projects) == \A i \in 1..Len(projects) : WellShaped(projects[i])

\* C4: a list holding a record with neither a 'protoproject' nor a
\* 'realProject' key makes org_to_ids raise KeyError and return no mapping,
\* whatever valid records come before or after it.
C4_UnknownShapeFailsBatch ==
    (/\ InOrgToIds
     /\ \E i \in 1..Len(op.projects) : HasNeitherKey(op.projects[i])
     /\ \A i \in 1..Len(op.projects) :
            HasNeitherKey(op.projects[i]) \/ WellShaped(op.projects[i]))
    => /\ result.raised = "KeyError"
       /\ result.value = <<>>

C4_Witness ==
    /\ InOrgToIds /\ Len(op.projects) = 3
    /\ WellShaped(op.projects[1]) /\ GitHubHosted(op.projects[1])
    /\ HasNeitherKey(op.projects[2])
    /\ WellShaped(op.projects[3]) /\ GitHubHosted(op.projects[3])
    /\ result.raised = "KeyError"

\* C5: on well-shaped records org_to_ids does not raise, and a record has
\* a normalized project in the output iff it is GitHub hosted (protoproject:
\* cloneUrl contains 'https://github.com/'; realProject: repoProvider of the
\* first element is 'github_apps'); the others add no entry and no key.
C5_OnlyGitHubKept ==
    (InOrgToIds /\ AllWellShaped(op.projects)) =>
        LET projects == op.projects
            out == Flatten(result.value)
            hosted == {i \in 1..Len(projects) : GitHubHosted(projects[i])}
        IN /\ result.raised = "none"
           /\ \A i \in 1..Len(projects) :
                 (\E j \in 1..Len(out) : out[j] = ExpectedEntry(projects[i]))
                     <=> i \in hosted
           /\ Len(out) = Cardinality(hosted)
           /\ {result.value[j].org : j \in 1..Len(result.value)}
                 = {ExpectedOrg(projects[i]) : i \in hosted}

C5_Witness ==
    /\ InOrgToIds /\ AllWellShaped(op.projects) /\ Len(op.projects) = 3
    /\ \E i, j, k \in 1..3 :
          /\ "protoproject" \in DOMAIN op.projects[i] /\ ~GitHubHosted(op.projects[i])
          /\ "realProject" \in DOMAIN op.projects[j] /\ ~GitHubHosted(op.projects[j])
          /\ GitHubHosted(op.projects[k])
    /\ result.raised = "none" /\ Len(Flatten(result.value)) = 1

\* the kept records of a list, in input order
RECURSIVE KeptFrom(_, _)
KeptFrom(projects, i) ==
    IF i > Len(projects) THEN <<>>
    ELSE IF GitHubHosted(projects[i])
         THEN <<[org |-> ExpectedOrg(projects[i]), sp |-> ExpectedEntry(projects[i])]>>
                  \o KeptFrom(projects, i + 1)
         ELSE KeptFrom(projects, i + 1)

\* the entries of one organization among kept records, in order
RECURSIVE EntriesOf(_, _)
EntriesOf(kept, org) ==
    IF kept = <<>> THEN <<>>
    ELSE IF Head(kept).org = org THEN <<Head(kept).sp>> \o EntriesOf(Tail(kept), org)
         ELSE EntriesOf(Tail(kept), org)

\* index of the first kept record of an organization
FirstIndex(kept, org) ==
    CHOOSE i \in 1..Len(kept) :
        kept[i].org = org /\ \A j \in 1..(i - 1) : kept[j].org # org

\* C6: the mapping returned by org_to_ids is the stable grouping of the
\* kept records by organization: keys in order of first appearance, each
\* organization's projects in input order, every kept record exactly once
\* (duplicates kept), each entry carrying display_name, key, is_protoproject.
C6_StableGrouping ==
    (InOrgToIds /\ AllWellShaped(op.projects)) =>
        LET kept == KeptFrom(op.projects, 1)
            g == result.value
        IN /\ result.raised = "none"
           /\ \A a, b \in 1..Len(g) : a # b => g[a].org # g[b].org
           /\ {g[a].org : a \in 1..Len(g)} = {kept[i].org : i \in 1..Len(kept)}
           /\ \A a, b \in 1..Len(g) :
                 a < b => FirstIndex(kept, g[a].org) < FirstIndex(kept, g[b].org)
           /\ \A a \in 1..Len(g) : g[a].ids = EntriesOf(kept, g[a].org)
           /\ Len(Flatten(g)) = Len(kept)

C6_Witness ==
    /\ InOrgToIds /\ AllWellShaped(op.projects) /\ result.raised = "none"
    /\ Len(op.projects) = 3
    /\ Len(result.value) = 2
    /\ Len(result.value[1].ids) = 2
    /\ result.value[1].ids[1].is_protoproject # result.value[1].ids[2].is_protoproject
    /\ ExpectedOrg(op.projects[2]) = result.value[2].org

C6_WitnessDuplicates ==
    /\ InOrgToIds /\ result.raised = "none"
    /\ Len(op.projects) = 2 /\ op.projects[1] = op.projects[2]
    /\ Len(result.value) = 1 /\ Len(result.value[1].ids) = 2

InExtract == op.name = "extract_project_under_org" /\ pc = "done"

\* C8: extract_project_under_org returns an empty sequence, without
\* raising, for an organization that is not a key of the grouping, and
\* otherwise exactly the sequence stored for it; the grouping is unchanged.
C8_ExtractUnderOrg ==
    InExtract =>
        LET g == op.projects
            at == {i \in 1..Len(g) : g[i].org = op.org}
        IN /\ result.raised = "none"
           /\ at = {} => result.value = <<>>
           /\ \A i \in at : result.value = g[i].ids
           /\ grouping = g

C8_WitnessAbsent ==
    /\ InExtract /\ op.projects # <<>>
    /\ \A i \in 1..Len(op.projects) : op.projects[i].org # op.org
    /\ result = Returned(<<>>)

C8_WitnessPresent ==
    /\ InExtract /\ Len(op.projects) = 2
    /\ op.projects[2].org = op.org
    /\ result.raised = "none" /\ Len(result.value) = 2


\* ------------------------------------------------------------------------
\* Properties of the session client
\* ------------------------------------------------------------------------
\* a response the remote service marks as failed, or that is not JSON
FailureBody(body) == ~body.json \/ body.status # "success"

\* C7: for a GET (get_my_projects) as for a POST (_make_lgtm_post, here
\* through get_project_lists) a response that is not JSON or whose status
\* is not 'success' reaches the caller as LGTMRequestException, and the
\* request is not sent again.
C7_FailureIsRequestFailure ==
    op.name \in {"get_my_projects", "get_project_lists"} =>
        \A k \in 1..Len(events) :
            (Responded(events[k]) /\ FailureBody(events[k].out.body)) =>
                /\ k = Len(events)
                /\ pc = "done"
                /\ result.raised = "LGTMRequestException"

InRebuildAll == op.name = "force_rebuild_all_proto_projects"
InUnfollowByOrg == op.name = "unfollow_repository_by_org"

\* the invocation that opens a request (the others are its retries)
FirstAttempt(i) ==
    /\ IsSend(events[i])
    /\ \/ i = 1
       \/ ~RaisedSSL(events[i - 1])
       \/ events[i - 1].request # events[i].request

\* the requests issued so far to one of the given endpoints, in order
RECURSIVE IssuedFrom(_, _)
IssuedFrom(i, urls) ==
    IF i > Len(events) THEN <<>>
    ELSE IF FirstAttempt(i) /\ events[i].request.url \in urls
         THEN <<events[i].request>> \o IssuedFrom(i + 1, urls)
         ELSE IssuedFrom(i + 1, urls)

IsPrefix(s, t) == Len(s) <= Len(t) /\ s = SubSeq(t, 1, Len(s))

\* the listing request was answered with a list that normalizes
Listed ==
    \E i \in 1..Len(events) :
        /\ events[i].request.url = "getMyProjects"
        /\ Responded(events[i])
        /\ ~FailureBody(events[i].out.body)
        /\ org_to_ids(events[i].out.body.data).raised = "none"

\* the grouping built from the answered listing
ListedGrouping ==
    LET i == CHOOSE j \in 1..Len(events) :
                 events[j].request.url = "getMyProjects" /\ Responded(events[j])
    IN org_to_ids(events[i].out.body.data).value

RECURSIVE ProtoKeys(_)
ProtoKeys(projects) ==
    IF projects = <<>> THEN <<>>
    ELSE IF Head(projects).is_protoproject
         THEN <<Head(projects).key>> \o ProtoKeys(Tail(projects))
         ELSE ProtoKeys(Tail(projects))

RECURSIVE KeysOf(_)
KeysOf(requests) ==
    IF requests = <<>> THEN <<>>
    ELSE <<Head(requests).data.value>> \o KeysOf(Tail(requests))

Rebuilds == IssuedFrom(1, {"rebuildProtoproject"})

\* C9: once the listing is fetched and normalized, force_rebuild_all_proto_projects
\* issues a rebuild request for every protoproject and for no real project,
\* one after the other in grouping order, each after a pacing sleep; a
\* rebuild failing with LGTMRequestException does not stop the rebuilds of
\* the remaining protoprojects and the operation returns normally.
C9_RebuildAll ==
    (InRebuildAll /\ Listed) =>
        LET listed == ListedGrouping
            expected == ProtoKeys(Flatten(listed))
            rebuilds == Rebuilds
            last == events[Len(events)]
        IN
        /\ grouping = listed
        /\ \A i \in 1..Len(rebuilds) :
              /\ rebuilds[i].method = "POST"
              /\ rebuilds[i].data.field = "protoproject_key"
        /\ IsPrefix(KeysOf(rebuilds), expected)
        /\ \A i \in 1..Len(events) :
              (FirstAttempt(i) /\ events[i].request.url = "rebuildProtoproject")
                  => (i > 1 /\ IsSleep(events[i - 1]))
        /\ Cardinality({i \in 1..Len(events) : IsSleep(events[i])})
              = Len(rebuilds) + (IF IsSleep(last) THEN 1 ELSE 0)
        /\ IsSleep(last) =>
              /\ pc = "request"
              /\ req.url = "rebuildProtoproject"
              /\ Len(rebuilds) < Len(expected)
              /\ req.data.value = expected[Len(rebuilds) + 1]
        /\ (pc = "done" /\ \A i \in 1..Len(events) : ~RaisedOther(events[i])) =>
              /\ result = Returned(None)
              /\ KeysOf(rebuilds) = expected

\* a rebuild request that ended in LGTMRequestException
RebuildFailedAt(i) ==
    /\ events[i].request.url = "rebuildProtoproject"
    /\ \/ Responded(events[i]) /\ FailureBody(events[i].out.body)
       \/ /\ RaisedSSL(events[i]) /\ i >= 5
          /\ \A j \in (i - 4)..i : RaisedSSL(events[j]) /\ events[j].request = events[i].request

C9_Witness ==
    /\ InRebuildAll /\ Listed /\ pc = "done" /\ result = Returned(None)
    /\ Len(Rebuilds) = 2
    /\ \E i \in 1..Len(events) :
          /\ RebuildFailedAt(i) /\ Responded(events[i])
          /\ \E j \in (i + 1)..Len(events) : events[j].request = Rebuilds[2]

C9_WitnessSkipsReal ==
    /\ InRebuildAll /\ Listed /\ pc = "done" /\ result = Returned(None)
    /\ Len(Flatten(grouping)) = 2 /\ Len(Rebuilds) = 1
    /\ ~Flatten(grouping)[1].is_protoproject

C9_WitnessSSLExhausted ==
    /\ InRebuildAll /\ Listed /\ pc = "done" /\ result = Returned(None)
    /\ Len(Rebuilds) = 2
    /\ \E i \in 1..Len(events) :
          /\ RebuildFailedAt(i) /\ RaisedSSL(events[i])
          /\ \E j \in (i + 1)..Len(events) : events[j].request = Rebuilds[2]

\* the projects stored under op.org in the grouping
UnderOrg ==
    LET at == {i \in 1..Len(grouping) : grouping[i].org = op.org} IN
    IF at = {} THEN <<>> ELSE grouping[CHOOSE i \in at : TRUE].ids

\* the unfollow request each project under the organization should get
RECURSIVE ExpectedUnfollows(_, _)
ExpectedUnfollows(projects, include_protoproject) ==
    IF projects = <<>> THEN <<>>
    ELSE LET p == Head(projects)
             rest == ExpectedUnfollows(Tail(projects), include_protoproject)
         IN IF p.is_protoproject /\ ~include_protoproject THEN rest
            ELSE <<[method |-> "POST",
                    url |-> IF p.is_protoproject THEN "unfollowProtoproject"
                                                 ELSE "unfollowProject",
                    data |-> [field |-> IF p.is_protoproject THEN "protoproject_key"
                                                             ELSE "project_key",
                              value |-> p.key]]>> \o rest

Unfollows == IssuedFrom(1, {"unfollowProject", "unfollowProtoproject"})

\* an unfollow request that ended in LGTMRequestException
UnfollowFailedAt(i) ==
    /\ events[i].request.url \in {"unfollowProject", "unfollowProtoproject"}
    /\ \/ Responded(events[i]) /\ FailureBody(events[i].out.body)
       \/ /\ RaisedSSL(events[i]) /\ i >= 5
          /\ \A j \in (i - 4)..i : RaisedSSL(events[j]) /\ events[j].request = events[i].request

\* C10: unfollow_repository_by_org issues unfollow requests only for the
\* projects grouped under org, in input order; without include_protoproject
\* never for a protoproject, with it for every project under org
\* (protoprojects to unfollowProtoproject, real projects to unfollowProject);
\* the first LGTMRequestException reaches the caller and no unfollow request
\* is issued for the projects after the failing one.
C10_UnfollowByOrg ==
    (InUnfollowByOrg /\ Listed) =>
        LET expected == ExpectedUnfollows(UnderOrg, op.include_protoproject) IN
        /\ grouping = ListedGrouping
        /\ IsPrefix(Unfollows, expected)
        /\ ~op.include_protoproject =>
              \A i \in 1..Len(events) :
                  /\ events[i].request.url # "unfollowProtoproject"
                  /\ events[i].request.data.field # "protoproject_key"
        /\ (pc = "done" /\ result.raised = "none") =>
              /\ result = Returned(None)
              /\ Unfollows = expected
        /\ \A i \in 1..Len(events) :
              UnfollowFailedAt(i) =>
                  /\ i = Len(events)
                  /\ pc = "done"
                  /\ result.raised = "LGTMRequestException"

C10_Witness ==
    /\ InUnfollowByOrg /\ Listed /\ op.include_protoproject
    /\ pc = "done" /\ result.raised = "LGTMRequestException"
    /\ Len(UnderOrg) = 2 /\ Len(Unfollows) = 1
    /\ UnfollowFailedAt(Len(events))

C10_WitnessAll ==
    /\ InUnfollowByOrg /\ Listed /\ op.include_protoproject
    /\ pc = "done" /\ result = Returned(None)
    /\ Len(Unfollows) = 2
    /\ Unfollows[1].url = "unfollowProtoproject" /\ Unfollows[2].url = "unfollowProject"

C10_WitnessExcluded ==
    /\ InUnfollowByOrg /\ Listed /\ ~op.include_protoproject
    /\ pc = "done" /\ result = Returned(None)
    /\ Len(UnderOrg) = 2 /\ Len(Unfollows) = 1
    /\ UnderOrg[1].is_protoproject


====
